---- MODULE Spec2Model ----
(***************************************************************************)
(* The blacklist of astrbot_plugin_blacklist_tools: the table `blacklist`, *)
(* the plugin's handlers (main.py, class MyPlugin) and the store object    *)
(* (database.py, class BlacklistDatabase).                                  *)
(*                                                                          *)
(* Handlers are coroutines.  A handler runs without interruption between   *)
(* two awaits on the database, so each handler is cut at the await where   *)
(* it resumes with a fetched result and goes on to act on it: the segment  *)
(* before it and the segment after it are one action each, and segments of *)
(* different handlers interleave.  A handler's position and locals are its  *)
(* entry in `tasks`; of a fetched row the entry keeps the columns the      *)
(* handler goes on to read.  A handler that returns leaves its arguments,  *)
(* locals and outcome in `ret`, and Return takes them before anything else *)
(* runs, so a state with ret # None shows the store as the handler left    *)
(* it.                                                                      *)
(*                                                                          *)
(* Time is an integer count of clock ticks; timedelta(seconds = n) is n    *)
(* ticks.  Timestamps are stored as TEXT, written by isoformat and read    *)
(* back by fromisoformat.                                                   *)
(***************************************************************************)
EXTENDS Integers, Sequences, FiniteSets, TLC

\* ------------------------------------------------------------------ bounds

\* The clock stops ticking at MaxTime.
MaxTime == 3

\* Width of a timestamp's text, in digits.
Digits == 2

\* ------------------------------------------------------------------ inputs

Users == {"u1", "u2"}
\* The reason column is never read back by a handler: one value in Spec, two
\* where replacement is checked (SpecReplace).
Reasons == {"spam"}
ReplaceReasons == {"", "spam"}
\* Requested durations where a permanent record comes from a request of 0 alone.
PermanentDurations == {0, 1}
\* Requested durations: negative, 0 (permanent requested), under the cap, over it.
Durations == {-1, 0, 1, 5}
\* How far the clock moves between two successive datetime.now() calls.
Skews == {0, 1}
Tasks == {"t1"}
\* Handlers in flight together where two blocking checks meet.
Tasks2 == {"t1", "t2"}
\* Durations the callers of BlacklistDatabase.add_user ban for (0: permanent).
StoreDurations == {0, 1}

\* Pages asked of the listing (0: before the first page) and page sizes.
Pages == {0, 1, 2, 3}
PageSizes == {1, 2}

\* What becomes of an operation's storage calls: all succeed, the statement
\* raises, or the statement succeeds and commit() raises.
Faults == {"none", "execute", "commit"}
\* The same for an operation that only reads.
ReadFaults == {"none", "execute"}

\* Pages asked of get_blacklist_users where its storage calls may fail.
StorePages == {1, 2}

\* Durations the LLM passes to the tool that are text, not numbers.
TextDurations == {"abc", "60"}

\* Configurations: max_blacklist_duration, allow_permanent_blacklist,
\* auto_delete_expired_after (-1: never delete).
MaxDurations == {1}
\* max_blacklist_duration as a configuration file can set it: also 0 and
\* negative.
CapDurations == {-1, 0, 1}
AutoDeletes == {-1, 1}

VARIABLES
    blacklist,                  \* the table as the open connection shows it
    committed,                  \* the table as the last commit left it
    db,                         \* BlacklistDatabase._db: "open", or "closed"
    now,                        \* the clock, datetime.now()
    max_blacklist_duration,     \* MyPlugin.max_blacklist_duration
    allow_permanent_blacklist,  \* MyPlugin.allow_permanent_blacklist
    auto_delete_expired_after,  \* BlacklistDatabase.auto_delete_expired_after
    tasks,                      \* each suspended handler's position and locals
    ret                         \* the handler that has just returned, or None

vars == <<blacklist, committed, db, now, max_blacklist_duration, allow_permanent_blacklist,
          auto_delete_expired_after, tasks, ret>>

config == <<max_blacklist_duration, allow_permanent_blacklist,
            auto_delete_expired_after>>

\* --------------------------------------------------------------- timestamps

\* Python's None, SQL's NULL, and the empty result of fetchone().
None == <<>>

RECURSIVE Pow10(_)
Pow10(n) == IF n = 0 THEN 1 ELSE 10 * Pow10(n - 1)

\* datetime.isoformat(): the fixed-width, zero-padded text of a time.
isoformat(t) == [i \in 1..Digits |-> (t \div Pow10(Digits - i)) % 10]

RECURSIVE fromisoformat(_)
\* datetime.fromisoformat(): the time a text denotes.
fromisoformat(s) ==
    IF s = <<>> THEN 0
    ELSE 10 * fromisoformat(SubSeq(s, 1, Len(s) - 1)) + s[Len(s)]

\* ------------------------------------------------------------------- table

\* One row of CREATE TABLE blacklist (user_id, ban_time, expire_time, reason).
Row(user_id, ban_time, expire_time, reason) ==
    [user_id |-> user_id, ban_time |-> ban_time,
     expire_time |-> expire_time, reason |-> reason]

\* SELECT * FROM blacklist WHERE user_id = ?
SelectUser(table, user_id) == {r \in table : r.user_id = user_id}

\* cursor.fetchone(): a row of the result, or None.
fetchone(rows) == IF rows = {} THEN None ELSE <<CHOOSE r \in rows : TRUE>>

\* INSERT on a table that has no primary key: the row is added.
InsertPlain(table, row) == table \cup {row}

\* INSERT OR IGNORE: a row whose user_id is taken is dropped.
InsertOrIgnore(table, row) ==
    IF \E r \in table : r.user_id = row.user_id THEN table ELSE table \cup {row}

\* INSERT OR REPLACE: the primary key user_id makes the new row take the place
\* of every row with its user_id.
InsertOrReplace(table, row) ==
    {r \in table : r.user_id # row.user_id} \cup {row}

\* DELETE with the condition inverted: WHERE user_id <> ?
DeleteOthers(table, user_id) == {r \in table : r.user_id = user_id}

\* DELETE of every row that has expired, whoever it belongs to.
DeleteExpired(table, user_id) ==
    {r \in table :
         r.expire_time = None \/ now <= fromisoformat(r.expire_time)}

\* DELETE with its WHERE clause left out.
DeleteEveryone(table, user_id) == {}

\* DELETE FROM blacklist WHERE user_id = ?
DeleteUser(table, user_id) == {r \in table : r.user_id # user_id}

\* SELECT COUNT(*) FROM blacklist
CountRows(table) == Cardinality(table)

\* Comparison of two TEXT values, as ORDER BY makes it: byte by byte, and a
\* proper prefix comes first.
TextLess(a, b) ==
    \/ \E i \in 1..Len(a) :
           /\ i <= Len(b)
           /\ a[i] < b[i]
           /\ \A j \in 1..(i - 1) : a[j] = b[j]
    \/ /\ Len(a) < Len(b)
       /\ \A j \in 1..Len(a) : a[j] = b[j]

\* SELECT * FROM blacklist ORDER BY ban_time DESC: the orders the rows can come
\* in; rows of equal ban_time come in either order.
OrderByBanTimeDesc(table) ==
    {s \in [1..Cardinality(table) -> table] :
         /\ \A i, j \in DOMAIN s : i # j => s[i] # s[j]
         /\ \A i, j \in DOMAIN s :
                i < j => ~TextLess(s[i].ban_time, s[j].ban_time)}

\* LIMIT limit OFFSET offset on ordered rows; a negative OFFSET counts as 0.
LimitOffset(rows, limit, offset) ==
    LET first == IF offset < 0 THEN 0 ELSE offset
        last == IF first + limit < Len(rows) THEN first + limit ELSE Len(rows)
    IN  SubSeq(rows, first + 1, last)

\* ------------------------------------------------------------------- tasks

Idle == [pc |-> "idle"]

Free(t) == tasks[t].pc = "idle"

\* No handler is at its return.
Running == ret = None

\* Handler t is suspended with record rec, or free again.
Set(t, rec) == tasks' = [tasks EXCEPT ![t] = rec]

\* The state after __init__ and initialize(): the table exists and is empty.
Init ==
    /\ blacklist = {}
    /\ committed = {}
    /\ db = "open"
    /\ now = 0
    /\ max_blacklist_duration \in MaxDurations
    /\ allow_permanent_blacklist \in BOOLEAN
    /\ auto_delete_expired_after \in AutoDeletes
    /\ tasks = [t \in Tasks |-> Idle]
    /\ ret = None

\* The clock advances.
Tick ==
    /\ Running
    /\ now < MaxTime
    /\ now' = now + 1
    /\ UNCHANGED <<blacklist, committed, db, config, tasks, ret>>

\* The caller takes the outcome of the handler that returned.
Return ==
    /\ ret # None
    /\ ret' = None
    /\ UNCHANGED <<blacklist, committed, db, now, config, tasks>>

\* ------------------------------------------------- MyPlugin.on_all_message

\* The comparison `datetime.now() > expire_datetime`, wrongly inclusive.
ExpiredInclusive(expire_time) == now >= fromisoformat(expire_time)

\* `datetime.now() > expire_datetime`
Expired(expire_time) == now > fromisoformat(expire_time)

\* user[2] of a fetched row, kept as a row of that one column.
ExpireColumn(user) ==
    IF user = None THEN None ELSE <<[expire_time |-> user[1].expire_time]>>

\* Up to the fetched row: SELECT ... WHERE user_id = sender_id, fetchone().
on_all_message(t, sender_id) ==
    /\ Running
    /\ Free(t)
    /\ Set(t, [pc |-> "fetched", op |-> "on_all_message", user_id |-> sender_id,
               user |-> ExpireColumn(fetchone(SelectUser(blacklist, sender_id)))])
    /\ UNCHANGED <<blacklist, committed, db, now, config, ret>>

\* From the fetched row on: the expiry test, the DELETE and commit, stop_event.
\* result: whether the event was stopped.
on_all_message_check(t) ==
    /\ Running
    /\ tasks[t].pc = "fetched"
    /\ tasks[t].op = "on_all_message"
    /\ LET user == tasks[t].user
           sender_id == tasks[t].user_id
           timed == user # None /\ user[1].expire_time # None
           expired == timed /\ Expired(user[1].expire_time)
       IN  /\ blacklist' = IF expired THEN DeleteUser(blacklist, sender_id)
                           ELSE blacklist
           /\ ret' = <<[op |-> "on_all_message", user_id |-> sender_id,
                        user |-> user, result |-> (user # None /\ ~expired),
                        deleted |-> expired]>>
    /\ Set(t, Idle)
    /\ committed' = IF ret'[1].deleted THEN blacklist' ELSE committed
    /\ UNCHANGED <<db, now, config>>

\* ------------------------------------------------------------ MyPlugin.add

\* History, for the record of an add: what the user's row was before it.
Prior(user_id) ==
    LET user == fetchone(SelectUser(blacklist, user_id))
    IN  IF user = None THEN "absent"
        ELSE IF user[1].expire_time = None THEN "permanent" ELSE "timed"

\* actual_duration of `add`: the requested duration, max_blacklist_duration
\* when permanent is requested and not allowed, capped at max_blacklist_duration.
add_actual_duration(duration) ==
    LET defaulted == IF duration = 0 /\ ~allow_permanent_blacklist
                     THEN max_blacklist_duration
                     ELSE duration
    IN  IF defaulted > max_blacklist_duration
        THEN max_blacklist_duration
        ELSE defaulted

\* The later time with the sign of the timedelta slipped.
expire_before(t, actual_duration) == isoformat(t - actual_duration)

\* (datetime.now() + timedelta(seconds=actual_duration)).isoformat(), the
\* clock reading t.
expire_at(t, actual_duration) == isoformat(t + actual_duration)

\* The admin command `add`.  ban_time is the clock's first reading; expire_time
\* is computed from a second reading, taken `skew` ticks later, and only when
\* actual_duration > 0.
add(user_id, duration, reason) ==
    /\ Running
    /\ LET actual_duration == add_actual_duration(duration)
       IN  \E skew \in (IF actual_duration > 0 THEN Skews ELSE {0}) :
               LET ban_time == isoformat(now)
                   expire_time == IF actual_duration > 0
                                  THEN expire_at(now + skew, actual_duration)
                                  ELSE None
               IN  /\ now + skew <= MaxTime
                   /\ now' = now + skew
                   /\ blacklist' = InsertOrReplace(
                          blacklist, Row(user_id, ban_time, expire_time, reason))
                   /\ ret' = <<[op |-> "add", user_id |-> user_id,
                                duration |-> duration, reason |-> reason,
                                ban_time |-> ban_time,
                                expire_time |-> expire_time,
                                actual_duration |-> actual_duration,
                                result |-> IF actual_duration > 0 THEN "timed"
                                           ELSE "permanent",
                                prior |-> Prior(user_id)]>>
    /\ committed' = blacklist'
    /\ UNCHANGED <<db, config, tasks>>

\* ----------------------------------------------- MyPlugin.add_to_blacklist

\* actual_duration with the cap left out of the tool.
tool_uncapped_duration(duration) ==
    IF duration = 0 /\ ~allow_permanent_blacklist
    THEN max_blacklist_duration
    ELSE duration

\* actual_duration of the LLM tool `add_to_blacklist`.
tool_actual_duration(duration) ==
    LET defaulted == IF duration = 0 /\ ~allow_permanent_blacklist
                     THEN max_blacklist_duration
                     ELSE duration
    IN  IF defaulted > max_blacklist_duration
        THEN max_blacklist_duration
        ELSE defaulted

\* The LLM tool `add_to_blacklist`: the same steps as `add`.
add_to_blacklist(user_id, duration, reason) ==
    /\ Running
    /\ LET actual_duration == tool_actual_duration(duration)
       IN  \E skew \in (IF actual_duration > 0 THEN Skews ELSE {0}) :
               LET ban_time == isoformat(now)
                   expire_time == IF actual_duration > 0
                                  THEN expire_at(now + skew, actual_duration)
                                  ELSE None
               IN  /\ now + skew <= MaxTime
                   /\ now' = now + skew
                   /\ blacklist' = InsertOrReplace(
                          blacklist, Row(user_id, ban_time, expire_time, reason))
                   /\ ret' = <<[op |-> "add_to_blacklist", user_id |-> user_id,
                                duration |-> duration, reason |-> reason,
                                ban_time |-> ban_time,
                                expire_time |-> expire_time,
                                actual_duration |-> actual_duration,
                                result |-> IF actual_duration > 0 THEN "timed"
                                           ELSE "permanent",
                                prior |-> Prior(user_id)]>>
    /\ committed' = blacklist'
    /\ UNCHANGED <<db, config, tasks>>

\* The LLM tool `add_to_blacklist` called with a str for `duration`; nothing
\* in the handler converts it.  `duration == 0` is False for a str, so
\* actual_duration stays the str; `actual_duration > self.max_blacklist_duration`
\* compares a str with an int and raises TypeError; the handler's
\* `except Exception` returns the error message, and the INSERT is not reached.
add_to_blacklist_str(user_id, duration, reason) ==
    /\ Running
    /\ duration \in TextDurations
    /\ ret' = <<[op |-> "add_to_blacklist_str", user_id |-> user_id,
                 text |-> duration, reason |-> reason, result |-> "error",
                 prior |-> Prior(user_id)]>>
    /\ UNCHANGED <<blacklist, committed, db, now, config, tasks>>

\* ------------------------------------------------------------- MyPlugin.rm

\* The admin command `rm`, up to the fetched row; `found` is `user` as the
\* handler reads it, a row or None.
rm(t, user_id) ==
    /\ Running
    /\ Free(t)
    /\ Set(t, [pc |-> "fetched", op |-> "rm", user_id |-> user_id,
               found |-> fetchone(SelectUser(blacklist, user_id)) # None])
    /\ UNCHANGED <<blacklist, committed, db, now, config, ret>>

\* `rm` from the fetched row on: "not in the blacklist" when there is none,
\* else DELETE, commit and "removed".
rm_delete(t) ==
    /\ Running
    /\ tasks[t].pc = "fetched"
    /\ tasks[t].op = "rm"
    /\ LET found == tasks[t].found
           user_id == tasks[t].user_id
       IN  /\ blacklist' = IF ~found THEN blacklist
                           ELSE DeleteUser(blacklist, user_id)
           /\ ret' = <<[op |-> "rm", user_id |-> user_id, found |-> found,
                        result |-> IF ~found THEN "not_found" ELSE "removed"]>>
    /\ Set(t, Idle)
    /\ committed' = IF tasks[t].found THEN blacklist' ELSE committed
    /\ UNCHANGED <<db, now, config>>

\* ------------------------------------------ MyPlugin.remove_from_blacklist

\* The LLM tool `remove_from_blacklist`, up to the fetched row.
remove_from_blacklist(t, user_id) ==
    /\ Running
    /\ Free(t)
    /\ Set(t, [pc |-> "fetched", op |-> "remove_from_blacklist",
               user_id |-> user_id,
               found |-> fetchone(SelectUser(blacklist, user_id)) # None])
    /\ UNCHANGED <<blacklist, committed, db, now, config, ret>>

\* `remove_from_blacklist` from the fetched row on.
remove_from_blacklist_delete(t) ==
    /\ Running
    /\ tasks[t].pc = "fetched"
    /\ tasks[t].op = "remove_from_blacklist"
    /\ LET found == tasks[t].found
           user_id == tasks[t].user_id
       IN  /\ blacklist' = IF ~found THEN blacklist
                           ELSE DeleteUser(blacklist, user_id)
           /\ ret' = <<[op |-> "remove_from_blacklist", user_id |-> user_id,
                        found |-> found,
                        result |-> IF ~found THEN "not_found" ELSE "removed"]>>
    /\ Set(t, Idle)
    /\ committed' = IF tasks[t].found THEN blacklist' ELSE committed
    /\ UNCHANGED <<db, now, config>>

\* ---------------------------------------------------------- MyPlugin.clear

\* The admin command `clear`, up to the fetched count.
clear(t) ==
    /\ Running
    /\ Free(t)
    /\ Set(t, [pc |-> "fetched", op |-> "clear", count |-> CountRows(blacklist)])
    /\ UNCHANGED <<blacklist, committed, db, now, config, ret>>

\* `if count == 0`, off by one.
AlreadyEmptyOrOne(count) == count <= 1

\* `if count == 0`: the reply is "already empty" and the handler returns.
AlreadyEmpty(count) == count = 0

\* DELETE FROM blacklist
DeleteAll(table) == {}

\* `clear` from the fetched count on: "already empty" when it is 0, else
\* DELETE FROM blacklist, commit, and the count in the reply.  History:
\* `wrote`, whether the DELETE was issued, and `removed`, the rows it removed.
clear_delete(t) ==
    /\ Running
    /\ tasks[t].pc = "fetched"
    /\ tasks[t].op = "clear"
    /\ LET count == tasks[t].count
           empty == AlreadyEmpty(count)
       IN  /\ blacklist' = IF empty THEN blacklist ELSE DeleteAll(blacklist)
           /\ ret' = <<[op |-> "clear", count |-> count,
                        result |-> IF empty THEN "empty" ELSE "cleared",
                        wrote |-> ~empty,
                        removed |-> IF empty THEN 0
                                    ELSE CountRows(blacklist)]>>
    /\ Set(t, Idle)
    /\ committed' = IF ret'[1].wrote THEN blacklist' ELSE committed
    /\ UNCHANGED <<db, now, config>>

\* ----------------------------------------------------------- MyPlugin.info

\* The admin command `info`: the user's row, or "not in the blacklist".
info(user_id) ==
    /\ Running
    /\ ret' = <<[op |-> "info", user_id |-> user_id,
                 result |-> fetchone(SelectUser(blacklist, user_id))]>>
    /\ UNCHANGED <<blacklist, committed, db, now, config, tasks>>

\* ------------------------------------------------------------- MyPlugin.ls

\* The admin command `ls`, up to the fetched count.
ls(t, page, page_size) ==
    /\ Running
    /\ Free(t)
    /\ Set(t, [pc |-> "fetched", op |-> "ls", page |-> page,
               page_size |-> page_size, total_count |-> CountRows(blacklist)])
    /\ UNCHANGED <<blacklist, committed, db, now, config, ret>>

\* total_pages = (total_count + page_size - 1) // page_size
total_pages(total_count, page_size) ==
    (total_count + page_size - 1) \div page_size

\* The page `ls` shows: 1 when page < 1, total_pages when page > total_pages.
ls_page(page, total_count, page_size) ==
    IF page < 1 THEN 1
    ELSE IF page > total_pages(total_count, page_size)
         THEN total_pages(total_count, page_size)
         ELSE page

\* `ls` from the fetched count on: "the blacklist is empty" when it is 0, else
\* the page is brought into 1..total_pages and SELECT ... LIMIT page_size
\* OFFSET (page - 1) * page_size gives the rows shown.  `page` is the page
\* asked for, `shown` the page shown.
ls_select(t) ==
    /\ Running
    /\ tasks[t].pc = "fetched"
    /\ tasks[t].op = "ls"
    /\ LET page == tasks[t].page
           page_size == tasks[t].page_size
           total_count == tasks[t].total_count
           shown == ls_page(page, total_count, page_size)
           offset == (shown - 1) * page_size
       IN  IF total_count = 0
           THEN ret' = <<[op |-> "ls", page |-> page, page_size |-> page_size,
                          shown |-> page, users |-> <<>>, result |-> "empty"]>>
           ELSE \E rows \in OrderByBanTimeDesc(blacklist) :
                    ret' = <<[op |-> "ls", page |-> page,
                              page_size |-> page_size, shown |-> shown,
                              users |-> LimitOffset(rows, page_size, offset),
                              result |-> "listed"]>>
    /\ Set(t, Idle)
    /\ UNCHANGED <<blacklist, committed, db, now, config>>

\* ------------------------------------------- BlacklistDatabase: storage

\* `await self._db.execute(...)` raises: _db is None after terminate(), or the
\* storage call fails.  Every operation's `except Exception` catches it.
ExecuteFails(fault) == db = "closed" \/ fault = "execute"

\* The storage call of a write that raises, "none" when none does.
Raised(fault) == IF ExecuteFails(fault) THEN "execute" ELSE fault

\* A failed commit(): the handler returns from its `except` and the
\* transaction that the statement opened stays open on the connection, its
\* effect on show to every later statement.
CommitFails(table, fault) == table

\* The table as the last commit left it, after a write that got to commit().
Commit(table, fault) == IF fault = "commit" THEN committed ELSE table

\* terminate(): close() and _db = None when _db is set, else nothing.  close()
\* drops a transaction that is still open.
terminate ==
    /\ Running
    /\ db' = "closed"
    /\ blacklist' = IF db = "open" THEN committed ELSE blacklist
    /\ ret' = <<[op |-> "terminate", closed |-> (db = "open")]>>
    /\ UNCHANGED <<committed, now, config, tasks>>

\* --------------------------------- BlacklistDatabase.is_user_blacklisted

\* `now > delete_time`, delete_time = expire_datetime +
\* timedelta(seconds = auto_delete_expired_after).
PastGrace(expire_time) ==
    now > fromisoformat(expire_time) + auto_delete_expired_after

\* Whether is_user_blacklisted goes on to remove_user: the row has expired,
\* auto-deletion is not switched off (-1), and the grace has passed.
Reclaim(expire_time) ==
    /\ Expired(expire_time)
    /\ ~(auto_delete_expired_after = -1)
    /\ PastGrace(expire_time)

\* Up to the fetched row: SELECT ... WHERE user_id = ?, fetchone(); False from
\* the `except` when the SELECT raises.
is_user_blacklisted(t, user_id, fault) ==
    /\ Running
    /\ Free(t)
    /\ IF ExecuteFails(fault)
       THEN /\ ret' = <<[op |-> "is_user_blacklisted", user_id |-> user_id,
                         user |-> None, result |-> FALSE, deleted |-> FALSE,
                         failed |-> TRUE, present |-> FALSE]>>
            /\ UNCHANGED tasks
       ELSE /\ Set(t, [pc |-> "fetched", op |-> "is_user_blacklisted",
                       user_id |-> user_id,
                       user |-> ExpireColumn(
                                    fetchone(SelectUser(blacklist, user_id)))])
            /\ UNCHANGED ret
    /\ UNCHANGED <<blacklist, committed, db, now, config>>

\* From the fetched row on: the expiry test, remove_user past the grace (its
\* outcome is not looked at), and the returned bool.  History: `present`,
\* whether the user had a row when remove_user ran.
is_user_blacklisted_check(t, fault) ==
    /\ Running
    /\ tasks[t].pc = "fetched"
    /\ tasks[t].op = "is_user_blacklisted"
    /\ LET user == tasks[t].user
           user_id == tasks[t].user_id
           timed == user # None /\ user[1].expire_time # None
           expired == timed /\ Expired(user[1].expire_time)
           reclaim == timed /\ Reclaim(user[1].expire_time)
           deleted == reclaim /\ ~ExecuteFails(fault)
       IN  /\ blacklist' = IF deleted
                           THEN CommitFails(DeleteUser(blacklist, user_id), fault)
                           ELSE blacklist
           /\ committed' = IF deleted
                           THEN Commit(DeleteUser(blacklist, user_id), fault)
                           ELSE committed
           /\ ret' = <<[op |-> "is_user_blacklisted", user_id |-> user_id,
                        user |-> user, result |-> (user # None /\ ~expired),
                        deleted |-> deleted, failed |-> FALSE,
                        present |-> SelectUser(blacklist, user_id) # {}]>>
    /\ Set(t, Idle)
    /\ UNCHANGED <<db, now, config>>

\* --------------------------------- BlacklistDatabase: the other operations

\* get_blacklist_count(): SELECT COUNT(*); 0 from the `except`.
get_blacklist_count(fault) ==
    /\ Running
    /\ ret' = <<[op |-> "get_blacklist_count",
                 result |-> IF ExecuteFails(fault) THEN 0
                            ELSE CountRows(blacklist),
                 failed |-> ExecuteFails(fault)]>>
    /\ UNCHANGED <<blacklist, committed, db, now, config, tasks>>

\* get_blacklist_users(page, page_size): SELECT ... ORDER BY ban_time DESC
\* LIMIT page_size OFFSET (page - 1) * page_size, fetchall(); [] from the
\* `except`.
get_blacklist_users(page, page_size, fault) ==
    /\ Running
    /\ LET offset == (page - 1) * page_size
       IN  \E rows \in OrderByBanTimeDesc(blacklist) :
               ret' = <<[op |-> "get_blacklist_users", page |-> page,
                         page_size |-> page_size,
                         users |-> IF ExecuteFails(fault) THEN <<>>
                                   ELSE LimitOffset(rows, page_size, offset),
                         failed |-> ExecuteFails(fault)]>>
    /\ UNCHANGED <<blacklist, committed, db, now, config, tasks>>

\* get_user_info(user_id): the user's row; None when there is none and from
\* the `except`.
get_user_info(user_id, fault) ==
    /\ Running
    /\ ret' = <<[op |-> "get_user_info", user_id |-> user_id,
                 result |-> IF ExecuteFails(fault) THEN None
                            ELSE fetchone(SelectUser(blacklist, user_id)),
                 failed |-> ExecuteFails(fault)]>>
    /\ UNCHANGED <<blacklist, committed, db, now, config, tasks>>

\* add_user(user_id, ban_time, expire_time, reason): INSERT OR REPLACE, commit,
\* True; False from the `except`.
add_user(user_id, ban_time, expire_time, reason, fault) ==
    /\ Running
    /\ LET table == InsertOrReplace(
                        blacklist, Row(user_id, ban_time, expire_time, reason))
       IN  /\ blacklist' = IF ExecuteFails(fault) THEN blacklist
                           ELSE CommitFails(table, fault)
           /\ committed' = IF ExecuteFails(fault) THEN committed
                           ELSE Commit(table, fault)
    /\ ret' = <<[op |-> "add_user", user_id |-> user_id, reason |-> reason,
                 ban_time |-> ban_time, expire_time |-> expire_time,
                 fault |-> Raised(fault), result |-> Raised(fault) = "none",
                 prior |-> Prior(user_id)]>>
    /\ UNCHANGED <<db, now, config, tasks>>

\* remove_user(user_id): DELETE ... WHERE user_id = ?, commit, True; False
\* from the `except`.
remove_user(user_id, fault) ==
    /\ Running
    /\ LET table == DeleteUser(blacklist, user_id)
       IN  /\ blacklist' = IF ExecuteFails(fault) THEN blacklist
                           ELSE CommitFails(table, fault)
           /\ committed' = IF ExecuteFails(fault) THEN committed
                           ELSE Commit(table, fault)
    /\ ret' = <<[op |-> "remove_user", user_id |-> user_id,
                 fault |-> Raised(fault), result |-> Raised(fault) = "none"]>>
    /\ UNCHANGED <<db, now, config, tasks>>

\* clear_blacklist(): DELETE FROM blacklist, commit, True; False from the
\* `except`.
clear_blacklist(fault) ==
    /\ Running
    /\ LET table == DeleteAll(blacklist)
       IN  /\ blacklist' = IF ExecuteFails(fault) THEN blacklist
                           ELSE CommitFails(table, fault)
           /\ committed' = IF ExecuteFails(fault) THEN committed
                           ELSE Commit(table, fault)
    /\ ret' = <<[op |-> "clear_blacklist",
                 fault |-> Raised(fault), result |-> Raised(fault) = "none"]>>
    /\ UNCHANGED <<db, now, config, tasks>>

\* ------------------------------------------------------------------- Next

Next ==
    \/ Tick
    \/ Return
    \/ \E t \in Tasks, u \in Users : on_all_message(t, u)
    \/ \E t \in Tasks : on_all_message_check(t)
    \/ \E u \in Users, d \in Durations, r \in Reasons : add(u, d, r)
    \/ \E u \in Users, d \in Durations, r \in Reasons : add_to_blacklist(u, d, r)
    \/ \E t \in Tasks, u \in Users : rm(t, u)
    \/ \E t \in Tasks : rm_delete(t)
    \/ \E t \in Tasks, u \in Users : remove_from_blacklist(t, u)
    \/ \E t \in Tasks : remove_from_blacklist_delete(t)
    \/ \E t \in Tasks : clear(t)
    \/ \E t \in Tasks : clear_delete(t)
    \/ \E u \in Users : info(u)
    \/ \E t \in Tasks, u \in Users : is_user_blacklisted(t, u, "none")
    \/ \E t \in Tasks : is_user_blacklisted_check(t, "none")
    \/ get_blacklist_count("none")
    \/ \E u \in Users : get_user_info(u, "none")
    \/ \E u \in Users, d \in StoreDurations, r \in Reasons :
           add_user(u, isoformat(now),
                    IF d = 0 THEN None ELSE isoformat(now + d), r, "none")
    \/ \E u \in Users : remove_user(u, "none")
    \/ clear_blacklist("none")

Spec == Init /\ [][Next]_vars

\* The writes alone, with two reasons: what an add leaves of the row before it.
NextReplace ==
    \/ Tick
    \/ Return
    \/ \E u \in Users, d \in Durations, r \in ReplaceReasons : add(u, d, r)
    \/ \E u \in Users, d \in Durations, r \in ReplaceReasons :
           add_to_blacklist(u, d, r)
    \/ \E u \in Users, d \in StoreDurations, r \in ReplaceReasons :
           add_user(u, isoformat(now),
                    IF d = 0 THEN None ELSE isoformat(now + d), r, "none")
    \/ \E u \in Users : remove_user(u, "none")
    \/ \E u \in Users : get_user_info(u, "none")

SpecReplace == Init /\ [][NextReplace]_vars

\* The handlers with the adds limited to requests of 0 and of a duration under
\* the cap: every permanent record was stored by an add that asked for 0.
NextPermanent ==
    \/ Tick
    \/ Return
    \/ \E t \in Tasks, u \in Users : on_all_message(t, u)
    \/ \E t \in Tasks : on_all_message_check(t)
    \/ \E u \in Users, d \in PermanentDurations, r \in Reasons : add(u, d, r)
    \/ \E u \in Users, d \in PermanentDurations, r \in Reasons :
           add_to_blacklist(u, d, r)
    \/ \E t \in Tasks, u \in Users : rm(t, u)
    \/ \E t \in Tasks : rm_delete(t)
    \/ \E t \in Tasks : clear(t)
    \/ \E t \in Tasks : clear_delete(t)
    \/ \E u \in Users : info(u)
    \/ \E t \in Tasks, u \in Users : is_user_blacklisted(t, u, "none")
    \/ \E t \in Tasks : is_user_blacklisted_check(t, "none")
    \/ get_blacklist_count("none")
    \/ \E u \in Users : get_user_info(u, "none")

SpecPermanent == Init /\ [][NextPermanent]_vars

\* The listings, over tables that adds and removals build.
NextList ==
    \/ Tick
    \/ Return
    \/ \E u \in Users, d \in Durations, r \in Reasons : add(u, d, r)
    \/ \E t \in Tasks, u \in Users : rm(t, u)
    \/ \E t \in Tasks : rm_delete(t)
    \/ \E t \in Tasks, p \in Pages, n \in PageSizes : ls(t, p, n)
    \/ \E t \in Tasks : ls_select(t)
    \/ \E p \in Pages, n \in PageSizes : get_blacklist_users(p, n, "none")

SpecList == Init /\ [][NextList]_vars

\* The LLM tools, called with numbers and with text for the duration, and the
\* admin commands they mirror.
NextTool ==
    \/ Tick
    \/ Return
    \/ \E u \in Users, d \in Durations, r \in ReplaceReasons : add(u, d, r)
    \/ \E u \in Users, d \in Durations, r \in ReplaceReasons :
           add_to_blacklist(u, d, r)
    \/ \E u \in Users, d \in TextDurations, r \in ReplaceReasons :
           add_to_blacklist_str(u, d, r)
    \/ \E t \in Tasks, u \in Users : rm(t, u)
    \/ \E t \in Tasks : rm_delete(t)
    \/ \E t \in Tasks, u \in Users : remove_from_blacklist(t, u)
    \/ \E t \in Tasks : remove_from_blacklist_delete(t)

SpecTool == Init /\ [][NextTool]_vars

\* The blocking checks and the operations that only read, over tables that
\* adds build.
NextFrame ==
    \/ Tick
    \/ Return
    \/ \E u \in Users, d \in Durations, r \in Reasons : add(u, d, r)
    \/ \E t \in Tasks, u \in Users : on_all_message(t, u)
    \/ \E t \in Tasks : on_all_message_check(t)
    \/ \E t \in Tasks, u \in Users : is_user_blacklisted(t, u, "none")
    \/ \E t \in Tasks : is_user_blacklisted_check(t, "none")
    \/ get_blacklist_count("none")
    \/ \E p \in StorePages, n \in PageSizes : get_blacklist_users(p, n, "none")
    \/ \E u \in Users : get_user_info(u, "none")
    \/ \E u \in Users : info(u)
    \/ \E t \in Tasks, p \in StorePages, n \in PageSizes : ls(t, p, n)
    \/ \E t \in Tasks : ls_select(t)

SpecFrame == Init /\ [][NextFrame]_vars

\* The adds under every cap a configuration can set.
InitCap ==
    /\ blacklist = {}
    /\ committed = {}
    /\ db = "open"
    /\ now = 0
    /\ max_blacklist_duration \in CapDurations
    /\ allow_permanent_blacklist \in BOOLEAN
    /\ auto_delete_expired_after \in AutoDeletes
    /\ tasks = [t \in Tasks |-> Idle]
    /\ ret = None

NextCap ==
    \/ Tick
    \/ Return
    \/ \E u \in Users, d \in Durations, r \in Reasons : add(u, d, r)
    \/ \E u \in Users, d \in Durations, r \in Reasons : add_to_blacklist(u, d, r)
    \/ \E u \in Users : info(u)

SpecCap == InitCap /\ [][NextCap]_vars

\* Two blocking checks in flight together.
InitTwo ==
    /\ blacklist = {}
    /\ committed = {}
    /\ db = "open"
    /\ now = 0
    /\ max_blacklist_duration \in MaxDurations
    /\ allow_permanent_blacklist = TRUE
    /\ auto_delete_expired_after \in AutoDeletes
    /\ tasks = [t \in Tasks2 |-> Idle]
    /\ ret = None

NextTwo ==
    \/ Tick
    \/ Return
    \/ \E u \in Users, d \in StoreDurations, r \in Reasons :
           add_user(u, isoformat(now),
                    IF d = 0 THEN None ELSE isoformat(now + d), r, "none")
    \/ \E t \in Tasks2, u \in Users : is_user_blacklisted(t, u, "none")
    \/ \E t \in Tasks2 : is_user_blacklisted_check(t, "none")

SpecTwo == InitTwo /\ [][NextTwo]_vars

\* The operations of BlacklistDatabase with storage calls that fail, and
\* terminate().
NextFault ==
    \/ Tick
    \/ Return
    \/ terminate
    \/ \E t \in Tasks, u \in Users, f \in ReadFaults :
           is_user_blacklisted(t, u, f)
    \/ \E t \in Tasks, f \in Faults : is_user_blacklisted_check(t, f)
    \/ \E f \in ReadFaults : get_blacklist_count(f)
    \/ \E p \in StorePages, n \in PageSizes, f \in ReadFaults :
           get_blacklist_users(p, n, f)
    \/ \E u \in Users, f \in ReadFaults : get_user_info(u, f)
    \/ \E u \in Users, d \in StoreDurations, r \in Reasons, f \in Faults :
           add_user(u, isoformat(now),
                    IF d = 0 THEN None ELSE isoformat(now + d), r, f)
    \/ \E u \in Users, f \in Faults : remove_user(u, f)
    \/ \E f \in Faults : clear_blacklist(f)

\* BlacklistDatabase alone: of the configuration it has only
\* auto_delete_expired_after.
InitStore ==
    /\ Init
    /\ allow_permanent_blacklist = TRUE

SpecFault == InitStore /\ [][NextFault]_vars

\* ------------------------------------------------------------------ claims

\* The handler that has just returned is `op`.
Returned(op) == ret # None /\ ret[1].op = op

\* A blocking check has just returned.
CheckReturned == Returned("on_all_message") \/ Returned("is_user_blacklisted")

\* An add has just returned, by the command or by the tool.
AddReturned == Returned("add") \/ Returned("add_to_blacklist")

\* The step is the second segment of blocking check t.
CheckStep(t) ==
    /\ tasks[t].pc = "fetched"
    /\ tasks[t].op \in {"on_all_message", "is_user_blacklisted"}
    /\ tasks'[t].pc = "idle"

\* The step is the first segment of a removal by handler t.
RemoveFetch(t) ==
    /\ tasks[t].pc = "idle"
    /\ tasks'[t].pc = "fetched"
    /\ tasks'[t].op \in {"rm", "remove_from_blacklist"}

\* The step is the second segment of removal t.
RemoveStep(t) ==
    /\ tasks[t].pc = "fetched"
    /\ tasks[t].op \in {"rm", "remove_from_blacklist"}
    /\ tasks'[t].pc = "idle"

\* The blocking decision the specification gives for a looked-up record at
\* time t: a record is present, and it has no expire_time or t <= expire_time.
BlockedRow(user, t) ==
    /\ user # None
    /\ \/ user[1].expire_time = None
       \/ t <= fromisoformat(user[1].expire_time)

\* IsBlocked(user_id, t) on a table.
Blocked(table, user_id, t) ==
    BlockedRow(ExpireColumn(fetchone(SelectUser(table, user_id))), t)

\* The user's record is permanent.
Permanent(table, user_id) ==
    \E r \in SelectUser(table, user_id) : r.expire_time = None

\* The handler that has just returned is a remove of u, a clear, or an add of u.
Rewrote(u) ==
    /\ ret # None
    /\ \/ ret[1].op \in {"clear", "clear_blacklist"}
       \/ /\ ret[1].op \in {"rm", "remove_from_blacklist", "remove_user",
                            "add", "add_to_blacklist", "add_user"}
          /\ ret[1].user_id = u

\* C1: a blocking check (on_all_message stopping the event,
\* is_user_blacklisted returning True) decides "blocked" exactly when its
\* lookup found a record and the record has no expire_time or now <=
\* expire_time; with no record it decides "not blocked".
C1_BlockingDecision ==
    CheckReturned => (ret[1].result <=> BlockedRow(ret[1].user, now))

\* C1, its case: a check at now = expire_time, which blocks.
C1_Witness ==
    /\ CheckReturned
    /\ ret[1].user # None
    /\ ret[1].user[1].expire_time # None
    /\ now = fromisoformat(ret[1].user[1].expire_time)
    /\ ret[1].result

\* C2: with allow_permanent_blacklist, a permanent record stays, and every
\* blocking check whose lookup finds it blocks, through every step that is not
\* a remove, a clear or an add of that user.
C2_PermanentBanStays ==
    [][allow_permanent_blacklist =>
         \A u \in Users :
             (Permanent(blacklist, u) /\ ~Rewrote(u)') =>
                 /\ Permanent(blacklist', u)
                 /\ \A t \in Tasks :
                        (CheckStep(t) /\ tasks[t].user_id = u
                         /\ tasks[t].user # None
                         /\ tasks[t].user[1].expire_time = None)
                        => ret'[1].result]_vars

\* C3: with auto_delete_expired_after = g >= 0, a blocking check of a record
\* that expired at t0 returns False; it leaves the table as it is while
\* now <= t0 + g, and the record is gone after it once now > t0 + g.
C3_GraceThenReclaim ==
    [][\A t \in Tasks :
           LET u == tasks[t].user_id
               user == tasks[t].user
               t0 == fromisoformat(user[1].expire_time)
           IN  (/\ CheckStep(t)
                /\ auto_delete_expired_after >= 0
                /\ user # None
                /\ user[1].expire_time # None
                /\ ExpireColumn(fetchone(SelectUser(blacklist, u))) = user
                /\ now > t0)
               => /\ ~ret'[1].result
                  /\ IF now <= t0 + auto_delete_expired_after
                     THEN blacklist' = blacklist
                     ELSE SelectUser(blacklist', u) = {}]_vars

\* C4: with auto_delete_expired_after = -1 no blocking check deletes a record.
C4_NeverAutoDelete ==
    [][auto_delete_expired_after = -1 =>
         \A t \in Tasks : CheckStep(t) => blacklist' = blacklist]_vars

\* C5: an add whose effective duration is > 0 stores expire_time = ban_time +
\* effective duration exactly; with effective duration 0 it stores none.
C5_ExpireIsBanPlusDuration ==
    AddReturned =>
        LET r == ret[1]
        IN  /\ r.actual_duration > 0 =>
                /\ r.expire_time # None
                /\ fromisoformat(r.expire_time)
                       = fromisoformat(r.ban_time) + r.actual_duration
            /\ r.actual_duration = 0 => r.expire_time = None
            /\ SelectUser(blacklist, r.user_id)
                   = {Row(r.user_id, r.ban_time, r.expire_time, r.reason)}

\* C6: an add that asks for more than max_blacklist_duration stores a timed
\* record that expires max_blacklist_duration after ban_time, never later.
C6_ClampedToMax ==
    (AddReturned /\ ret[1].duration > max_blacklist_duration) =>
        \E r \in SelectUser(blacklist, ret[1].user_id) :
            /\ r.expire_time # None
            /\ fromisoformat(r.expire_time)
                   = fromisoformat(r.ban_time) + max_blacklist_duration

\* C7: an add that asks for 0 while permanent bans are not allowed stores a
\* record with expire_time = ban_time + max_blacklist_duration.
C7_PermanentNotAllowed ==
    (AddReturned /\ ret[1].duration = 0 /\ ~allow_permanent_blacklist) =>
        \E r \in SelectUser(blacklist, ret[1].user_id) :
            /\ r.expire_time # None
            /\ fromisoformat(r.expire_time)
                   = fromisoformat(r.ban_time) + max_blacklist_duration

\* C8: after an add of a user, by the command, the tool or add_user, the user's
\* only row is the row of that add: its ban_time, its expire_time (none for a
\* permanent add) and its reason, whatever the row before it held; the other
\* users' rows are as they were.
C8_ReaddReplaces ==
    [][(AddReturned \/ Returned("add_user"))' =>
         LET r == ret'[1]
         IN  /\ SelectUser(blacklist', r.user_id)
                    = {Row(r.user_id, r.ban_time, r.expire_time, r.reason)}
             /\ \A u \in Users \ {r.user_id} :
                    SelectUser(blacklist', u) = SelectUser(blacklist, u)]_vars

\* C8, its case: a timed add over a permanent record.
C8_Witness ==
    /\ AddReturned
    /\ ret[1].prior = "permanent"
    /\ ret[1].expire_time # None
    /\ ret[1].reason = ""

\* C9: the table holds at most one row per user_id, and the count is the
\* number of user_ids that have a row.
C9_OneRowPerUser ==
    /\ \A r1, r2 \in blacklist : r1.user_id = r2.user_id => r1 = r2
    /\ CountRows(blacklist) = Cardinality({r.user_id : r \in blacklist})
    /\ Returned("get_blacklist_count") =>
           ret[1].result = Cardinality({u \in Users :
                                            SelectUser(blacklist, u) # {}})

\* C9, its case: the count is taken with two users listed, one of them added
\* again over its row.
C9_Witness ==
    /\ Returned("add")
    /\ ret[1].prior # "absent"
    /\ CountRows(blacklist) = 2

\* C10: a removal looks the user up; with no record it reports not_found and
\* writes nothing; with a record it reports removed, the user has no record
\* after it and IsBlocked of the user is false.
C10_RemoveBan ==
    [][\A t \in Tasks :
           /\ RemoveFetch(t) =>
                  tasks'[t].found
                      = (SelectUser(blacklist, tasks'[t].user_id) # {})
           /\ RemoveStep(t) =>
                  IF tasks[t].found
                  THEN /\ ret'[1].result = "removed"
                       /\ SelectUser(blacklist', tasks[t].user_id) = {}
                       /\ ~Blocked(blacklist', tasks[t].user_id, now')
                       /\ \A u \in Users \ {tasks[t].user_id} :
                              SelectUser(blacklist', u) = SelectUser(blacklist, u)
                  ELSE /\ ret'[1].result = "not_found"
                       /\ blacklist' = blacklist]_vars

\* C10, its case: a removal that found the user's record has returned.
C10_Witness ==
    /\ Returned("rm") \/ Returned("remove_from_blacklist")
    /\ ret[1].result = "removed"
    /\ SelectUser(blacklist, ret[1].user_id) = {}

\* The step is the first segment of clear t.
ClearFetch(t) ==
    /\ tasks[t].pc = "idle"
    /\ tasks'[t].pc = "fetched"
    /\ tasks'[t].op = "clear"

\* The step is the second segment of clear t.
ClearStep(t) ==
    /\ tasks[t].pc = "fetched"
    /\ tasks[t].op = "clear"
    /\ tasks'[t].pc = "idle"

\* C11: clear reads the number of records; when it read 0 it reports "already
\* empty" and issues no DELETE; when it read N > 0 it empties the table and
\* reports N, and on a table that holds those N records it removes N.
C11_ClearAll ==
    [][\A t \in Tasks :
           /\ ClearFetch(t) => tasks'[t].count = Cardinality(blacklist)
           /\ ClearStep(t) =>
                  LET N == tasks[t].count
                  IN  IF N = 0
                      THEN /\ ret'[1].result = "empty"
                           /\ ~ret'[1].wrote
                           /\ blacklist' = blacklist
                      ELSE /\ ret'[1].result = "cleared"
                           /\ ret'[1].count = N
                           /\ blacklist' = {}
                           /\ Cardinality(blacklist) = N =>
                                  Cardinality(blacklist \ blacklist') = N]_vars

\* C11, its case: a clear of a table of two records has removed both and
\* reports 2.
C11_Witness ==
    /\ Returned("clear")
    /\ ret[1].result = "cleared"
    /\ ret[1].count = 2
    /\ ret[1].removed = 2
    /\ blacklist = {}

\* A listing has returned: get_blacklist_users, or `ls` with its rows.
ListReturned == Returned("get_blacklist_users") \/ Returned("ls")

\* Positions (page - 1) * page_size + 1 .. min(page * page_size, total) of an
\* order; none when (page - 1) * page_size >= total.
PageOf(order, page, page_size) ==
    [i \in 1..(IF page * page_size <= Len(order)
               THEN page_size
               ELSE IF (page - 1) * page_size >= Len(order) THEN 0
                    ELSE Len(order) - (page - 1) * page_size)
       |-> order[(page - 1) * page_size + i]]

\* C12: a listing of page >= 1 returns the records at positions
\* (page - 1) * page_size + 1 .. min(page * page_size, total) of the table in
\* ban_time-descending order, none when (page - 1) * page_size >= total: the
\* page asked for, never another.
C12_ListPage ==
    (ListReturned /\ ret[1].page >= 1) =>
        \E order \in OrderByBanTimeDesc(blacklist) :
            ret[1].users = PageOf(order, ret[1].page, ret[1].page_size)

\* A write of BlacklistDatabase has just returned.
WriteReturned ==
    Returned("add_user") \/ Returned("remove_user") \/ Returned("clear_blacklist")

\* What the write that returned r asked for, done to a table.
Asked(table, r) ==
    IF r.op = "add_user"
    THEN {x \in table : x.user_id # r.user_id}
             \cup {Row(r.user_id, r.ban_time, r.expire_time, r.reason)}
    ELSE IF r.op = "remove_user"
         THEN {x \in table : x.user_id # r.user_id}
         ELSE {}

\* C13: a write (add_user, remove_user, clear_blacklist) that reports failure
\* leaves the table as it was, on show to later operations and as committed,
\* whether the statement or the commit failed; and a write that succeeds
\* commits its own change alone, never a failed write's.
C13_FailedWriteNoEffect ==
    [][WriteReturned' =>
         IF ret'[1].result
         THEN committed' = Asked(committed, ret'[1])
         ELSE /\ blacklist' = blacklist
              /\ committed' = committed]_vars

\* C14: no operation of BlacklistDatabase lets a storage error out.  When a
\* storage call fails, also because terminate() has closed the connection,
\* is_user_blacklisted returns False, get_blacklist_count 0,
\* get_blacklist_users [], get_user_info None, and add_user, remove_user and
\* clear_blacklist False, and the table is as it was; a second terminate()
\* does nothing.
C14_NoErrorEscapes ==
    [][LET r == ret'[1]
           same == blacklist' = blacklist /\ committed' = committed /\ db' = db
       IN  /\ (Returned("is_user_blacklisted")' /\ r.failed) =>
                  (r.result = FALSE /\ same)
           /\ (Returned("get_blacklist_count")' /\ r.failed) =>
                  (r.result = 0 /\ same)
           /\ (Returned("get_blacklist_users")' /\ r.failed) =>
                  (r.users = <<>> /\ same)
           /\ (Returned("get_user_info")' /\ r.failed) =>
                  (r.result = None /\ same)
           /\ (WriteReturned' /\ r.fault # "none") =>
                  (r.result = FALSE /\ same)
           /\ (Returned("terminate")' /\ db = "closed") => same]_vars

\* C15: add_to_blacklist called with a duration that is not a number falls
\* back to a duration of 0 and stores the record: permanent when
\* allow_permanent_blacklist, else expiring max_blacklist_duration after the
\* call; it does not end in an error with nothing stored.
C15_TextDurationFallsBack ==
    Returned("add_to_blacklist_str") =>
        /\ ret[1].result # "error"
        /\ \E r \in SelectUser(blacklist, ret[1].user_id) :
               /\ r.reason = ret[1].reason
               /\ IF allow_permanent_blacklist
                  THEN r.expire_time = None
                  ELSE /\ r.expire_time # None
                       /\ fromisoformat(r.expire_time)
                              >= now + max_blacklist_duration

\* Blocking check t holds a fetched record that has expired and is past its
\* grace: it goes on to the delete.
Reclaiming(t) ==
    /\ tasks[t].pc = "fetched"
    /\ tasks[t].op = "is_user_blacklisted"
    /\ tasks[t].user # None
    /\ tasks[t].user[1].expire_time # None
    /\ auto_delete_expired_after >= 0
    /\ now > fromisoformat(tasks[t].user[1].expire_time)
                 + auto_delete_expired_after

\* C16: of blocking checks that have both read the same expired, reclaimable
\* record, each, in whatever order they go on, returns False without an error,
\* leaves the user with no record and the other users' records as they were;
\* the one that finds the record already deleted succeeds all the same.
C16_ConcurrentReclaim ==
    [][\A t \in Tasks2 :
           (Reclaiming(t) /\ tasks'[t].pc = "idle") =>
               /\ ret'[1].result = FALSE
               /\ ~ret'[1].failed
               /\ ret'[1].deleted
               /\ SelectUser(blacklist', tasks[t].user_id) = {}
               /\ \A u \in Users \ {tasks[t].user_id} :
                      SelectUser(blacklist', u) = SelectUser(blacklist, u)]_vars

\* C16, its case: two checks had read the same expired record, the other has
\* deleted it, and this one has run its delete on the absent record while
\* another user is listed.
C16_Witness ==
    /\ Returned("is_user_blacklisted")
    /\ ret[1].deleted
    /\ ~ret[1].present
    /\ ~ret[1].result
    /\ blacklist # {}

\* C17: every record with an expire_time has expire_time >= ban_time, after
\* any adds and replaces by the command, the tool and add_user.
C17_ExpireNotBeforeBan ==
    \A r \in blacklist :
        r.expire_time # None =>
            fromisoformat(r.expire_time) >= fromisoformat(r.ban_time)

\* C17, its case: a timed add has replaced a timed record, at a later time.
C17_Witness ==
    /\ AddReturned
    /\ ret[1].prior = "timed"
    /\ ret[1].expire_time # None
    /\ fromisoformat(ret[1].ban_time) > 0
    /\ \E r \in blacklist : r.user_id # ret[1].user_id /\ r.expire_time # None

\* The table after a handler stores a ban of actual_duration for user_id, the
\* clock reading t1 and then t2.
Stored(table, user_id, reason, t1, t2, actual_duration) ==
    {x \in table : x.user_id # user_id}
        \cup {Row(user_id, isoformat(t1),
                  IF actual_duration > 0
                  THEN isoformat(t2 + actual_duration)
                  ELSE None,
                  reason)}

\* C18: the tool and the command do the same.  From the same table, with the
\* same user_id, duration, reason, configuration and clock readings,
\* add_to_blacklist leaves the table the add command leaves, with the
\* effective duration the command computes, and the other way round;
\* rm and remove_from_blacklist find the record or not by the same lookup,
\* report not_found or removed alike and leave the same table.
C18_ToolAsCommand ==
    [][/\ Returned("add_to_blacklist")' =>
              LET r == ret'[1]
              IN  /\ r.actual_duration = add_actual_duration(r.duration)
                  /\ blacklist' = Stored(blacklist, r.user_id, r.reason, now,
                                         now', add_actual_duration(r.duration))
       /\ Returned("add")' =>
              LET r == ret'[1]
              IN  /\ r.actual_duration = tool_actual_duration(r.duration)
                  /\ blacklist' = Stored(blacklist, r.user_id, r.reason, now,
                                         now', tool_actual_duration(r.duration))
       /\ \A t \in Tasks :
              /\ RemoveFetch(t) =>
                     tasks'[t].found
                         = (\E x \in blacklist : x.user_id = tasks'[t].user_id)
              /\ RemoveStep(t) =>
                     /\ ret'[1].result
                            = (IF tasks[t].found THEN "removed" ELSE "not_found")
                     /\ blacklist'
                            = (IF tasks[t].found
                               THEN {x \in blacklist :
                                         x.user_id # tasks[t].user_id}
                               ELSE blacklist)]_vars

\* C18, its case: the tool has stored a ban asked for beyond the cap over a
\* record the command could have stored.
C18_Witness ==
    /\ Returned("add_to_blacklist")
    /\ ret[1].duration > max_blacklist_duration
    /\ ret[1].prior = "timed"
    /\ ret[1].expire_time # None

\* The state of user_id's ban on a table at time t.
BanState(table, user_id, t) ==
    IF SelectUser(table, user_id) = {} THEN "ABSENT"
    ELSE IF Blocked(table, user_id, t) THEN "ACTIVE"
         ELSE "EXPIRED"

\* The handler that returns in this step is an add of u.
AddOf(u) ==
    /\ (AddReturned \/ Returned("add_user"))'
    /\ ret'[1].user_id = u

\* The handler that returns in this step is a removal of u or a clear.
RemovalOf(u) ==
    /\ ret' # None
    /\ \/ ret'[1].op \in {"clear", "clear_blacklist"}
       \/ /\ ret'[1].op \in {"rm", "remove_from_blacklist", "remove_user"}
          /\ ret'[1].user_id = u

\* C19: a user's ban changes state only from ABSENT (or EXPIRED) to ACTIVE by
\* an add of the user, from ACTIVE to EXPIRED by the clock passing the
\* expire_time, from EXPIRED to ABSENT by a blocking check past the grace
\* window, and to ABSENT by a removal or a clear; a blocking check whose
\* lookup shows the user EXPIRED or ABSENT returns False, and no blocking check
\* takes an ACTIVE record away.
C19_BanStateMachine ==
    [][\A u \in Users :
           LET a == BanState(blacklist, u, now)
               b == BanState(blacklist', u, now')
           IN  /\ a # b =>
                      \/ b = "ACTIVE" /\ AddOf(u)
                      \/ /\ a = "ACTIVE" /\ b = "EXPIRED"
                         /\ now' > now
                         /\ SelectUser(blacklist', u) = SelectUser(blacklist, u)
                      \/ /\ a = "EXPIRED" /\ b = "ABSENT"
                         /\ \E t \in Tasks : CheckStep(t) /\ tasks[t].user_id = u
                         /\ auto_delete_expired_after >= 0
                         /\ \A r \in SelectUser(blacklist, u) :
                                now > fromisoformat(r.expire_time)
                                          + auto_delete_expired_after
                      \/ b = "ABSENT" /\ RemovalOf(u)
               /\ \A t \in Tasks :
                      (CheckStep(t) /\ tasks[t].user_id = u) =>
                          /\ ~BlockedRow(tasks[t].user, now) => ~ret'[1].result
                          /\ a = "ACTIVE" => b # "ABSENT"]_vars

\* From `before` to `after` nothing has changed but, possibly, rows of
\* user_id that are gone.
OnlyDeleted(before, after, user_id) ==
    /\ after \subseteq before
    /\ \A r \in before \ after : r.user_id = user_id

\* The step is by an operation that only reads: a lookup or count that a
\* handler suspends on, or the return of count, list, get-info, info or ls.
ReadStep ==
    \/ \E t \in Tasks : tasks[t].pc = "idle" /\ tasks'[t].pc = "fetched"
    \/ /\ ret' # None
       /\ ret'[1].op \in {"get_blacklist_count", "get_blacklist_users",
                          "get_user_info", "info", "ls"}

\* C20: a blocking check of u leaves every row of the table as it is, creates
\* none, and removes none but u's; count, list and get-info leave the table
\* as it is.
C20_CheckFrame ==
    [][/\ \A t \in Tasks :
              CheckStep(t) =>
                  OnlyDeleted(blacklist, blacklist', tasks[t].user_id)
       /\ ReadStep => (blacklist' = blacklist /\ committed' = committed)]_vars

\* C20, its case: a check has deleted its user's expired record while
\* another user's expired record is listed.
C20_Witness ==
    /\ CheckReturned
    /\ ret[1].deleted
    /\ \E r \in blacklist :
           /\ r.user_id # ret[1].user_id
           /\ r.expire_time # None
           /\ now > fromisoformat(r.expire_time)

\* C21: a blocking check deletes only the expired record it read.  When an
\* add has stored a new ban for the user since the check's lookup, so that the
\* user's record is ACTIVE when the check goes on, the record is still there
\* after the check, and the user is blocked.
C21_ReclaimOnlyWhatWasRead ==
    [][\A t \in Tasks :
           (CheckStep(t)
            /\ BanState(blacklist, tasks[t].user_id, now) = "ACTIVE") =>
               /\ SelectUser(blacklist', tasks[t].user_id)
                      = SelectUser(blacklist, tasks[t].user_id)
               /\ Blocked(blacklist', tasks[t].user_id, now')]_vars

\* C22: with allow_permanent_blacklist false no add stores a record without
\* an expire_time, whatever the duration asked for (negative too) and whatever
\* max_blacklist_duration (0 and negative too): every record has an
\* expire_time.
C22_NeverPermanentWhenNotAllowed ==
    ~allow_permanent_blacklist =>
        /\ AddReturned => ret[1].expire_time # None
        /\ \A r \in blacklist : r.expire_time # None

\* C23: the count that clear reports is the number of records its DELETE
\* removed, and a clear that reports "already empty" leaves an empty table,
\* also when adds and removals by other handlers run between the clear's
\* count and its DELETE.
C23_ClearCountIsRemoved ==
    [][\A t \in Tasks :
           ClearStep(t) =>
               IF ret'[1].result = "empty"
               THEN blacklist' = {}
               ELSE ret'[1].count = Cardinality(blacklist \ blacklist')]_vars

====
